---- MODULE Spec2Model ----
(***************************************************************************)
(* Model of the tweet ingestion pipeline of src/server.js: the run guard   *)
(* (isJobRunning), the profile scrape, the batched store lookup, the       *)
(* summarizer's retry loop and the insert-if-absent write.                 *)
(*                                                                         *)
(* JavaScript runs one callback at a time, so one action is the code from  *)
(* one await to the next; every await is a place where another invocation  *)
(* of processTweets, or the outside world, may act.                        *)
(***************************************************************************)
EXTENDS Integers, Sequences, FiniteSets, TLC

\* ------------------------------------------------------------------ bounds
\* Invocations of processTweets that may be in flight together.
NumInvocations == 2
\* Entries of TARGET_USERNAMES the model keeps (the source lists ten).
NumUsers == 2
\* Article elements one profile page renders.
MaxItems == 2
\* Runs that pass the guard in one behaviour.
MaxRuns == 2
\* img elements inside one article element.
MaxPhotos == 2

\* ------------------------------------------------------- program constants
\* let currentDelay = 1000
InitialDelay == 1000
\* const maxRetries = 3
maxRetries == 3
\* articles.slice(0, 10)
SliceLimit == 10

Procs == 1..NumInvocations
\* TARGET_USERNAMES, in the configured order; a user is its position.
TARGET_USERNAMES == [n \in 1..NumUsers |-> n]

\* ------------------------------------------------------------------- URLs
\* A URL is the sequence of its parts: scheme, host, path.
XHost == "x.com"
TwitterHost == "twitter.com"
Url(host, path) == <<"https://", host, path>>
NoUrl == <<>>

\* String.prototype.replace with a string pattern: the first occurrence only.
ReplaceFirst(s, pat, rep) ==
    IF \E j \in 1..Len(s) : s[j] = pat
    THEN LET first == CHOOSE j \in 1..Len(s) :
                          /\ s[j] = pat
                          /\ \A h \in 1..(j - 1) : s[h] # pat
         IN  [s EXCEPT ![first] = rep]
    ELSE s

\* A plausible slip: the URL is stored as scraped.
NormalizeUrlIdentity(url) == url

\* tweet.url.replace("x.com", "twitter.com")
NormalizeUrl(url) == ReplaceFirst(url, XHost, TwitterHost)

\* --------------------------------------------------------- rendered items
\* What one article element of the profile page offers to the queries of
\* the scrape: the permalink of its time element (NoUrl when there is none),
\* its tweetText container, the datetime, a video player, its photos and a
\* YouTube id in the text ("" when the pattern does not match).  Every
\* media locator is kept as a sequence of parts, the id as a sequence of one.
Item(href, hasText, text, date, video, photos, yt) ==
    [href |-> href, hasText |-> hasText, text |-> text, date |-> date,
     video |-> video, photos |-> photos, yt |-> yt]

\* An image source: its path and its name and format parameters.
Img(path, name, format) == [path |-> path, name |-> name, format |-> format]

ItemPool ==
    { Item(Url(XHost, "/u/status/1"), TRUE, "hello", 2, FALSE,
           <<Img("p1", "small", "png")>>, ""),
      Item(Url(TwitterHost, "/u/status/1"), TRUE, "world", 1, TRUE, <<>>, ""),
      Item(Url(XHost, "/u/status/2"), TRUE, "", 3, FALSE, <<>>, "yt123456789"),
      Item(NoUrl, TRUE, "hello", 1, FALSE, <<>>, "") }

\* highResUrl: the name parameter deleted, format set to jpg; the href that
\* is left, as the sequence of its parts.
HighRes(img) == <<"https://", "pbs.twimg.com", img.path, "format=jpg">>

Media(mediaType, url) == [mediaType |-> mediaType, url |-> url]

\* if (img.src): an img element without a source has the path "".
HasSrc(img) == img.path # ""

\* A plausible slip: push in place of unshift, the YouTube entry last.
MediaOfYoutubeLast(item) ==
    LET withSrc == SelectSeq(item.photos, HasSrc)
        base == IF item.video
                THEN <<Media("video_post", item.href)>>
                ELSE [j \in 1..Len(withSrc) |->
                          Media("image", HighRes(withSrc[j]))]
    IN  IF item.yt # ""
        THEN base \o <<Media("youtube_video", <<item.yt>>)>>
        ELSE base

\* Lines 86-103: the media list of one item.
MediaOf(item) ==
    LET withSrc == SelectSeq(item.photos, HasSrc)
        base == IF item.video
                THEN <<Media("video_post", item.href)>>
                ELSE [j \in 1..Len(withSrc) |->
                          Media("image", HighRes(withSrc[j]))]
    IN  IF item.yt # ""
        THEN <<Media("youtube_video", <<item.yt>>)>> \o base
        ELSE base

\* Lines 79-111: what the page function maps one article to; the items
\* without link or text map to null and are filtered out (line 114).
IsValid(item) == item.href # NoUrl /\ item.hasText

Tweet(item) ==
    [text |-> item.text, url |-> item.href, date |-> item.date,
     media |-> MediaOf(item)]

Min(a, b) == IF a < b THEN a ELSE b

\* The pages a profile can render: up to MaxItems article elements, each
\* element once.
Pages ==
    UNION {{page \in [1..n -> ItemPool] :
               \A j, h \in 1..n : page[j] = page[h] => j = h} :
           n \in 0..MaxItems}

\* scrapedTweets.filter(Boolean) over articles.slice(0, 10).map(...)
ScrapedTweets(articles) ==
    LET sliced == SubSeq(articles, 1, Min(SliceLimit, Len(articles)))
        valid  == SelectSeq(sliced, IsValid)
    IN  [j \in 1..Len(valid) |-> Tweet(valid[j])]

\* The article elements handed to the page function on its own: with or
\* without link and text, video player, up to MaxPhotos img elements with or
\* without a source, a YouTube link in the text, and a quoted tweet nested
\* in the article (quoted is its link, NoUrl when there is none).
PhotoLists ==
    UNION {[1..n -> {Img("p1", "small", "png"), Img("", "", "")}] :
           n \in 0..MaxPhotos}

Articles ==
    {[href |-> h, hasText |-> t, text |-> "hello", date |-> 1, video |-> v,
      photos |-> ph, yt |-> y, quoted |-> q] :
        h \in {Url(XHost, "/u/status/1"), NoUrl}, t \in BOOLEAN,
        v \in BOOLEAN, ph \in PhotoLists, y \in {"", "yt123456789"},
        q \in {NoUrl, Url(XHost, "/q/status/9")}}

NoArticle ==
    [href |-> NoUrl, hasText |-> FALSE, text |-> "", date |-> 0,
     video |-> FALSE, photos |-> <<>>, yt |-> "", quoted |-> NoUrl]

\* ------------------------------------------------------------ JSON values
\* A parsed JSON value: null, or an object as the set of its
\* <<key, value>> pairs.  Undefined is what reading a missing key gives.
Undefined == "undefined"
JsonNull == [type |-> "null", props |-> {}]
JsonObject(props) == [type |-> "object", props |-> props]

Get(v, key) ==
    IF \E pr \in v.props : pr[1] = key
    THEN (CHOOSE pr \in v.props : pr[1] = key)[2]
    ELSE Undefined

\* JavaScript truthiness of a string or undefined, and of a JSON value.
Truthy(x) == x # "" /\ x # Undefined
TruthyValue(v) == v.type # "null"

\* A plausible slip: the empty-input check left out.
IsEmptyInputNever(text) == FALSE

\* if (!text) return null
IsEmptyInput(text) == ~Truthy(text)

\* The texts JSON.parse accepts in this model, with the values they denote.
FullT1 == "{title:T1,summary:S1}"
TitleOnly == "{title:T1}"
NullText == "null"
JsonTexts == {FullT1, TitleOnly, NullText}

JsonValue(str) ==
    CASE str = FullT1 -> JsonObject({<<"title", "T1">>, <<"summary", "S1">>})
      [] str = TitleOnly -> JsonObject({<<"title", "T1">>})
      [] OTHER -> JsonNull

\* A reply text is the sequence of its pieces; the opening and the closing
\* code fence of a fenced reply are pieces.
FenceJson == "[fence json]"
Fence == "[fence]"
Fences == {FenceJson, Fence}

\* content.replace(/<fence>json|<fence>/g, "").trim()
StripFences(content) == SelectSeq(content, LAMBDA piece : piece \notin Fences)

\* JSON.parse succeeds on exactly one JSON text; anything else throws.
Parses(jsonString) == Len(jsonString) = 1 /\ jsonString[1] \in JsonTexts
JSONparse(jsonString) == JsonValue(jsonString[1])

\* ------------------------------------------------------ service responses
\* What one fetch can come to: the call throws, or a response with a status
\* and the text of data.candidates[0].content.parts[0].text (<<>> when the
\* path is missing or the text empty).
Response(kind, status, content) ==
    [kind |-> kind, status |-> status, content |-> content]

Responses ==
    { Response("throw", 0, <<>>),
      Response("response", 429, <<>>),
      Response("response", 500, <<>>),
      Response("response", 200, <<>>),
      Response("response", 200, <<FenceJson, FullT1, Fence>>),
      Response("response", 200, <<FullT1>>),
      Response("response", 200, <<FenceJson, TitleOnly, Fence>>),
      Response("response", 200, <<"Here you go:", FullT1>>),
      Response("response", 200, <<NullText>>) }

\* response.ok
Ok(resp) == resp.status >= 200 /\ resp.status <= 299

\* Lines 144-171 for one response: "rate" (the 429 branch), "error" (the
\* catch block) or "value" (return parsedJson).
Outcome(resp) ==
    IF resp.kind = "throw" THEN "error"
    ELSE IF resp.status = 429 THEN "rate"
    ELSE IF ~Ok(resp) THEN "error"
    ELSE IF resp.content = <<>> THEN "error"
    ELSE IF ~Parses(StripFences(resp.content)) THEN "error"
    ELSE "value"

ParsedJson(resp) == JSONparse(StripFences(resp.content))

\* A plausible slip: the backoff grows by a second instead of doubling.
NextDelayLinear(d) == d + 1000

\* currentDelay *= 2
NextDelay(d) == d * 2

\* A plausible slip: one attempt too many.
LoopContinuesOffByOne(i) == i <= maxRetries

\* for (...; i < maxRetries; ...)
LoopContinues(i) == i < maxRetries

\* A plausible slip: the test of line 222 is dropped, every result is
\* written.
UsableAlways(v) == TRUE

\* summarizedArticle && summarizedArticle.title && summarizedArticle.summary
Usable(v) ==
    /\ TruthyValue(v)
    /\ Truthy(Get(v, "title"))
    /\ Truthy(Get(v, "summary"))

\* ------------------------------------------------------------- the store
\* Lines 223-232: the document of one tweet.
ArticleData(v, tweet, username) ==
    [title |-> Get(v, "title"),
     summary |-> Get(v, "summary"),
     body |-> tweet.text,
     url |-> NormalizeUrl(tweet.url),
     isCreatedBy |-> "twitter_gemini",
     source |-> username,
     publishedAt |-> tweet.date,
     media |-> tweet.media]

\* A plausible slip: a plain insert in place of the keyed upsert.
UpdateOneAlwaysInserts(docs, url, data) == docs \cup {data}

\* A plausible slip: $set in place of $setOnInsert.
UpdateOneOverwrites(docs, url, data) ==
    {a \in docs : a.url # url} \cup {data}

\* Article.updateOne({ url }, { $setOnInsert: data }, { upsert: true }): a
\* document with that url stays as it is; without one, data is inserted.
UpdateOne(docs, url, data) ==
    IF \E a \in docs : a.url = url THEN docs ELSE docs \cup {data}

\* Article.find({ url: { $in: urls } })
Find(docs, urls) == {a.url : a \in {b \in docs : b.url \in urls}}

\* A plausible slip: the filter keeps the known tweets.
FilterNewInverted(tweets, existingUrls) ==
    SelectSeq(tweets, LAMBDA t : t.url \in existingUrls)

\* recentTweets.filter(tweet => !existingUrls.has(tweet.url))
FilterNew(tweets, existingUrls) ==
    SelectSeq(tweets, LAMBDA t : t.url \notin existingUrls)

\* recentTweets.map(t => t.url)
ScrapedUrls(tweets) == {tweets[j].url : j \in 1..Len(tweets)}

\* ------------------------------------------------------------------ state
VARIABLES
    isJobRunning,  \* the lock flag of line 18
    store,         \* the documents of the Article collection
    browsers,      \* the browsers launched and not closed
    inv,           \* per invocation of processTweets, its place and locals
    runs,          \* the invocations that passed the guard so far
    storeAtStart,  \* history: the store when the latest run began
    allKnown,      \* history: every record scraped in the latest run had
                   \* its Article in the store when that run began
    article,       \* the article element handed to the page function
    mapped,        \* what the page function made of it, after the filter
    phase          \* the place of the page function taken on its own

vars == <<isJobRunning, store, browsers, inv, runs, storeAtStart, allKnown,
          article, mapped, phase>>

extractVars == <<article, mapped, phase>>

\* The locals of an invocation before its first step; pc is "idle" while
\* the invocation is not inside processTweets (not yet called, or returned),
\* and skipped tells that its latest call was turned away by the guard.
Fresh ==
    [pc |-> "idle", skipped |-> FALSE, worked |-> FALSE,
     u |-> 0, recentTweets |-> <<>>, existingUrls |-> {}, newTweets |-> <<>>,
     k |-> 0, i |-> 0, currentDelay |-> 0, result |-> JsonNull,
     \* history of the summarize call in progress or just returned
     called |-> FALSE, requests |-> 0, waits |-> <<>>, nFail |-> 0,
     nRate |-> 0,
     \* history: the upsert just made met a document of its url that
     \* differs from the data it carried
     keptExisting |-> FALSE,
     \* history of the scrape in progress: after each scroll it made, the
     \* article elements its query of the page found
     measurements |-> <<>>,
     \* history: the settle delays begun for the new tweets of this user
     delays |-> 0]

RunningPcs ==
    {"scrape", "launch", "context", "page", "close", "find", "fetch",
     "backoff", "update", "settle"}

Running(p) == inv[p].pc \in RunningPcs

\* The server after its start: lock free, nothing stored, no call yet.
PipelineInit ==
    /\ isJobRunning = FALSE
    /\ store = {}
    /\ browsers = 0
    /\ inv = [p \in Procs |-> Fresh]
    /\ runs = 0
    /\ storeAtStart = {}
    /\ allKnown = FALSE

Init ==
    /\ PipelineInit
    /\ article = NoArticle
    /\ mapped = <<>>
    /\ phase = "off"

Put(p, r) == inv' = [inv EXCEPT ![p] = r]

\* ------------------------------------------------------------ processTweets
\* A plausible slip: the lock is never looked at.
GuardBlocksNever(flag) == FALSE

\* if (isJobRunning) ... return;
GuardBlocks(flag) == flag

\* A plausible slip: the guard sits inside the try, so the finally block
\* releases the lock of the run in progress.
GuardAfterSkipReleased(flag) == FALSE

\* Lines 190-193: the return of a turned-away call comes before the try,
\* so the finally block does not run and the lock stays as it is.
GuardAfterSkip(flag) == flag

\* Lines 188-201: the guard, the lock, and the first call of the loop.
Invoke(p) ==
    /\ inv[p].pc = "idle"
    /\ IF GuardBlocks(isJobRunning)
       THEN /\ Put(p, [Fresh EXCEPT !.skipped = TRUE])
            /\ isJobRunning' = GuardAfterSkip(isJobRunning)
            /\ UNCHANGED <<store, browsers, runs, storeAtStart, allKnown>>
       ELSE /\ runs < MaxRuns
            /\ isJobRunning' = TRUE
            /\ runs' = runs + 1
            /\ storeAtStart' = store
            /\ allKnown' = TRUE
            /\ Put(p, [Fresh EXCEPT !.pc = "scrape", !.u = 1])
            /\ UNCHANGED <<store, browsers>>
    /\ UNCHANGED extractVars

\* A plausible slip: the lock is released on the normal path only.
AbortWithoutRelease(p) ==
    /\ Put(p, Fresh)
    /\ UNCHANGED isJobRunning

\* Lines 243-249 after a throw inside the try: catch, then finally.
Abort(p) ==
    /\ Put(p, Fresh)
    /\ isJobRunning' = FALSE

\* Lines 200, 242, 245-249: the next user of the loop, or the end of the
\* run and the finally block.
NextUser(p) ==
    IF inv[p].u < NumUsers
    THEN /\ Put(p, [Fresh EXCEPT !.pc = "scrape", !.worked = TRUE,
                                 !.u = inv[p].u + 1])
         /\ UNCHANGED isJobRunning
    ELSE /\ Put(p, Fresh)
         /\ isJobRunning' = FALSE

\* Lines 59-65: scrapeUserProfile up to its first await.  Without the
\* cookies file it returns [] and the loop goes on (lines 202-205).
ScrapeStart(p) ==
    /\ inv[p].pc = "scrape"
    /\ \E cookiesExist \in BOOLEAN :
          IF cookiesExist
          THEN /\ Put(p, [inv[p] EXCEPT !.pc = "launch", !.worked = TRUE])
               /\ UNCHANGED isJobRunning
          ELSE NextUser(p)
    /\ UNCHANGED <<store, browsers, runs, storeAtStart, allKnown>>
    /\ UNCHANGED extractVars

\* Line 65: chromium.launch resolves, or rejects outside the try of the
\* scrape, so the throw reaches the catch of processTweets.
LaunchReturns(p) ==
    /\ inv[p].pc = "launch"
    /\ \E ok \in BOOLEAN :
          IF ok
          THEN /\ Put(p, [inv[p] EXCEPT !.pc = "context"])
               /\ browsers' = browsers + 1
               /\ UNCHANGED isJobRunning
          ELSE /\ Abort(p)
               /\ UNCHANGED browsers
    /\ UNCHANGED <<store, runs, storeAtStart, allKnown>>
    /\ UNCHANGED extractVars

\* Line 66: browser.newContext resolves, or rejects, still outside the try:
\* the browser stays open and the throw reaches processTweets.
ContextReturns(p) ==
    /\ inv[p].pc = "context"
    /\ \E ok \in BOOLEAN :
          IF ok
          THEN /\ Put(p, [inv[p] EXCEPT !.pc = "page"])
               /\ UNCHANGED isJobRunning
          ELSE Abort(p)
    /\ UNCHANGED <<store, browsers, runs, storeAtStart, allKnown>>
    /\ UNCHANGED extractVars

\* Lines 68-122: the try block up to the close of the finally, on a page
\* that renders articles.  A throw in it (cookies, navigation, the wait for
\* the first tweet) gives [].
PageReturns(p) ==
    /\ inv[p].pc = "page"
    /\ \/ \E articles \in Pages :
             LET tweets == ScrapedTweets(articles)
             IN  /\ Put(p, [inv[p] EXCEPT !.pc = "close",
                                          !.recentTweets = tweets,
                                          !.measurements = <<Len(articles)>>])
                 /\ allKnown' =
                        /\ allKnown
                        /\ \A url \in ScrapedUrls(tweets) :
                               \E a \in storeAtStart :
                                   a.url = NormalizeUrl(url)
       \/ /\ Put(p, [inv[p] EXCEPT !.pc = "close", !.recentTweets = <<>>])
          /\ UNCHANGED allKnown
    /\ UNCHANGED <<isJobRunning, store, browsers, runs, storeAtStart>>
    /\ UNCHANGED extractVars

\* Lines 122, 201-208: the browser is closed, scrapeUserProfile returns and
\* processTweets goes on to the lookup, or to the next user.
CloseReturns(p) ==
    /\ inv[p].pc = "close"
    /\ browsers' = browsers - 1
    /\ IF Len(inv[p].recentTweets) = 0
       THEN NextUser(p)
       ELSE /\ Put(p, [inv[p] EXCEPT !.pc = "find", !.measurements = <<>>])
            /\ UNCHANGED isJobRunning
    /\ UNCHANGED <<store, runs, storeAtStart, allKnown>>
    /\ UNCHANGED extractVars

\* Lines 220-222 and 235-239: summarizeWithGemini has returned v; the
\* tweet is saved when v is usable, and skipped otherwise.
AfterSummarize(r, v) ==
    [r EXCEPT !.result = v,
              !.pc = IF Usable(v) THEN "update" ELSE "settle",
              !.delays = IF Usable(v) THEN @ ELSE @ + 1]

\* Lines 219-220 and 126-144: the call of summarizeWithGemini for tweet k,
\* up to its first await: the empty-input return, or the first fetch.
StartSummarize(r) ==
    LET call == [r EXCEPT !.called = TRUE, !.result = JsonNull, !.i = 0,
                          !.currentDelay = 0, !.requests = 0,
                          !.waits = <<>>, !.nFail = 0, !.nRate = 0,
                          !.keptExisting = FALSE]
    IN  IF IsEmptyInput(r.newTweets[r.k].text)
        THEN AfterSummarize(call, JsonNull)
        ELSE [call EXCEPT !.pc = "fetch", !.currentDelay = InitialDelay,
                          !.requests = 1]

\* Lines 207-217: the lookup resolves and the new tweets are filtered out
\* of the scraped ones; or it rejects, and the throw ends the run.
FindReturns(p) ==
    /\ inv[p].pc = "find"
    /\ \E ok \in BOOLEAN :
          IF ok
          THEN LET existingUrls ==
                       Find(store, ScrapedUrls(inv[p].recentTweets))
                   newTweets == FilterNew(inv[p].recentTweets, existingUrls)
               IN  IF Len(newTweets) = 0
                   THEN NextUser(p)
                   ELSE /\ Put(p, StartSummarize(
                                [inv[p] EXCEPT !.existingUrls = existingUrls,
                                               !.newTweets = newTweets,
                                               !.k = 1]))
                        /\ UNCHANGED isJobRunning
          ELSE Abort(p)
    /\ UNCHANGED <<store, browsers, runs, storeAtStart, allKnown>>
    /\ UNCHANGED extractVars

\* Lines 144-180: one fetch comes back.
FetchReturns(p) ==
    /\ inv[p].pc = "fetch"
    /\ \E resp \in Responses :
          LET r == inv[p]
              outcome == Outcome(resp)
          IN  CASE outcome = "rate" ->
                     \* lines 150-152: wait currentDelay
                     Put(p, [r EXCEPT !.pc = "backoff",
                                      !.waits = Append(@, r.currentDelay),
                                      !.nFail = @ + 1, !.nRate = @ + 1])
                [] outcome = "error" ->
                     \* lines 173-178: the last attempt returns null, the
                     \* others wait currentDelay
                     IF r.i = maxRetries - 1
                     THEN Put(p, AfterSummarize([r EXCEPT !.nFail = @ + 1],
                                                JsonNull))
                     ELSE Put(p, [r EXCEPT !.pc = "backoff",
                                           !.waits = Append(@, r.currentDelay),
                                           !.nFail = @ + 1])
                [] OTHER ->
                     \* lines 168-171: return parsedJson
                     Put(p, AfterSummarize(r, ParsedJson(resp)))
    /\ UNCHANGED <<isJobRunning, store, browsers, runs, storeAtStart,
                   allKnown>>
    /\ UNCHANGED extractVars

\* Lines 152-154 and 178-179, then line 141: the wait is over, the delay
\* doubles, i++ and the loop test; line 182 when the loop is left.
BackoffDone(p) ==
    /\ inv[p].pc = "backoff"
    /\ LET r == [inv[p] EXCEPT !.currentDelay = NextDelay(@), !.i = @ + 1]
       IN  IF LoopContinues(r.i)
           THEN Put(p, [r EXCEPT !.pc = "fetch", !.requests = @ + 1])
           ELSE Put(p, AfterSummarize(r, JsonNull))
    /\ UNCHANGED <<isJobRunning, store, browsers, runs, storeAtStart,
                   allKnown>>
    /\ UNCHANGED extractVars

\* Lines 223-239: the upsert resolves, or rejects and the throw ends the
\* run.
UpdateReturns(p) ==
    /\ inv[p].pc = "update"
    /\ \E ok \in BOOLEAN :
          IF ok
          THEN LET r == inv[p]
                   articleData == ArticleData(r.result, r.newTweets[r.k],
                                              TARGET_USERNAMES[r.u])
               IN  /\ store' = UpdateOne(store, articleData.url, articleData)
                   /\ Put(p, [r EXCEPT
                             !.pc = "settle",
                             !.delays = @ + 1,
                             !.keptExisting =
                                 \E a \in store : /\ a.url = articleData.url
                                                  /\ a # articleData])
                   /\ UNCHANGED isJobRunning
          ELSE /\ Abort(p)
               /\ UNCHANGED store
    /\ UNCHANGED <<browsers, runs, storeAtStart, allKnown>>
    /\ UNCHANGED extractVars

\* A plausible slip: the loop over the new tweets is left after the first.
MoreTweetsNever(k, n) == FALSE

\* for (const tweet of newTweets): another tweet after the k-th of n.
MoreTweets(k, n) == k < n

\* Lines 239, 219: the settle delay is over; the next new tweet, or the
\* next user.
SettleDone(p) ==
    /\ inv[p].pc = "settle"
    /\ IF MoreTweets(inv[p].k, Len(inv[p].newTweets))
       THEN /\ Put(p, StartSummarize([inv[p] EXCEPT !.k = @ + 1]))
            /\ UNCHANGED isJobRunning
       ELSE NextUser(p)
    /\ UNCHANGED <<store, browsers, runs, storeAtStart, allKnown>>
    /\ UNCHANGED extractVars

\* -------------------------------------------------------------- behaviours
Step(p) ==
    \/ ScrapeStart(p)
    \/ LaunchReturns(p)
    \/ ContextReturns(p)
    \/ PageReturns(p)
    \/ CloseReturns(p)
    \/ FindReturns(p)
    \/ FetchReturns(p)
    \/ BackoffDone(p)
    \/ UpdateReturns(p)
    \/ SettleDone(p)

Next ==
    \/ \E p \in Procs : Invoke(p)
    \/ \E p \in Procs : Step(p)

Spec == Init /\ [][Next]_vars

\* ------------------------------------------------- the page function alone
\* Lines 78-114 applied to a page of one article element.
ExtractInit ==
    /\ PipelineInit
    /\ article \in Articles
    /\ mapped = <<>>
    /\ phase = "eval"

Evaluate ==
    /\ phase = "eval"
    /\ mapped' = ScrapedTweets(<<article>>)
    /\ phase' = "done"
    /\ UNCHANGED <<isJobRunning, store, browsers, inv, runs, storeAtStart,
                   allKnown, article>>

ExtractNext == Evaluate

ExtractSpec == ExtractInit /\ [][ExtractNext]_vars

\* Every awaited call comes back: a run that can take a step takes one.
FairSpec == Spec /\ \A p \in Procs : WF_vars(Step(p))

\* -------------------------------------------------------------- properties
\* The summarize call of p has returned to processTweets.
Returned(p) == inv[p].called /\ inv[p].pc \in {"update", "settle"}

\* The tweet p is working on.
CurrentTweet(p) == inv[p].newTweets[inv[p].k]

\* C1: at most one invocation is between the guard and its return at any
\* time, the lock is set while one is, and an invocation that met the lock
\* set has returned without a single call of the pipeline.
C1_RunGuardMutualExclusion ==
    /\ Cardinality({p \in Procs : Running(p)}) <= 1
    /\ (\E p \in Procs : Running(p)) => isJobRunning
    /\ \A p \in Procs :
          inv[p].skipped =>
              /\ inv[p].pc = "idle"
              /\ ~inv[p].worked
              /\ ~inv[p].called
              /\ inv[p].requests = 0

\* An invocation was turned away while the other was waiting for a fetch.
C1_Witness ==
    \E p, q \in Procs :
        /\ p # q
        /\ inv[p].skipped
        /\ inv[q].pc = "fetch"

\* C2: every invocation that is running comes to return with the lock
\* released, whatever step of it throws (under FairSpec: every awaited call
\* comes back).
C2_GuaranteedRelease ==
    \A p \in Procs :
        Running(p) ~> (inv[p].pc = "idle" /\ ~isJobRunning)

\* A run was ended by the throw of newContext, which left its browser
\* open, and a later invocation has passed the guard.
C2_Witness ==
    \E p \in Procs :
        /\ inv[p].pc = "scrape"
        /\ runs = 2
        /\ browsers = 1

\* Two URLs of one permanent link: equal but for the x.com / twitter.com
\* host.
SamePermanentUrl(a, b) ==
    /\ Len(a) = Len(b)
    /\ \A j \in 1..Len(a) :
          \/ a[j] = b[j]
          \/ j = 2 /\ {a[j], b[j]} \subseteq {XHost, TwitterHost}

\* C3: the store never holds two Articles of one permanent URL, the
\* x.com and the twitter.com form of a link counting as one.
C3_UrlUniqueness ==
    \A a, b \in store : SamePermanentUrl(a.url, b.url) => a = b

\* A record scraped with the x.com host was saved against the Article
\* that the twitter.com form of the same link had created.
C3_Witness ==
    \E p \in Procs :
        /\ inv[p].pc = "settle"
        /\ Usable(inv[p].result)
        /\ CurrentTweet(p).url[2] = XHost
        /\ \E a \in store :
              /\ SamePermanentUrl(a.url, CurrentTweet(p).url)
              /\ a.body # CurrentTweet(p).text

\* C4: an Article that is in the store stays in it with every field as it
\* is, whatever the pipeline does next.
C4_NeverOverwrites ==
    [][\A a \in store : a \in store']_vars

\* An upsert carried data for a url whose stored Article differs from it,
\* and the run went on to the settle delay.
C4_Witness ==
    \E p \in Procs : inv[p].pc = "settle" /\ inv[p].keptExisting

\* C5: a run over feeds every record of which had its Article stored when
\* the run began (as a full run over the same feeds leaves them) inserts
\* nothing: the store stays as the run found it.
C5_Idempotence ==
    allKnown => store = storeAtStart

\* Such a second run has summarized a record again and sent its upsert.
C5_Witness ==
    /\ allKnown
    /\ runs = 2
    /\ \E p \in Procs :
          /\ inv[p].pc = "settle"
          /\ Usable(inv[p].result)
          /\ inv[p].requests >= 1

\* C6: one summarize call sends at most 3 requests; each rate-limit
\* response and each other failure takes one attempt of the same counter;
\* the call that fails 3 times returns null.
C6_BoundedRetry ==
    \A p \in Procs :
        /\ inv[p].requests <= 3
        /\ inv[p].pc = "fetch" =>
              inv[p].nFail = inv[p].i /\ inv[p].requests = inv[p].i + 1
        /\ inv[p].pc = "backoff" =>
              inv[p].nFail = inv[p].i + 1 /\ inv[p].requests = inv[p].i + 1
        /\ Returned(p) =>
              /\ inv[p].requests \in {inv[p].nFail, inv[p].nFail + 1}
              /\ inv[p].nFail = 3 => inv[p].result = JsonNull

\* Three failed attempts, rate limits and other failures mixed.
C6_Witness ==
    \E p \in Procs :
        /\ Returned(p)
        /\ inv[p].requests = 3
        /\ inv[p].nFail = 3
        /\ inv[p].nRate \in {1, 2}
        /\ inv[p].result = JsonNull

Pow2[n \in 0..8] == IF n = 0 THEN 1 ELSE 2 * Pow2[n - 1]

SumSeq(seq) ==
    LET Sum[n \in 0..Len(seq)] == IF n = 0 THEN 0 ELSE seq[n] + Sum[n - 1]
    IN  Sum[Len(seq)]

\* C7: the k-th wait of a summarize call lasts 1000 ms * 2^(k-1), there
\* are at most 3 waits, and a call that succeeds after two rate-limit
\* responses has waited 3000 ms in all.
C7_BackoffSchedule ==
    \A p \in Procs :
        /\ Len(inv[p].waits) <= 3
        /\ \A k \in 1..Len(inv[p].waits) :
              inv[p].waits[k] = 1000 * Pow2[k - 1]
        /\ (Returned(p) /\ inv[p].nRate = 2 /\ inv[p].requests = 3
                /\ inv[p].nFail = 2) =>
              SumSeq(inv[p].waits) = 3000

\* Two rate-limit responses, then a usable summary.
C7_Witness ==
    \E p \in Procs :
        /\ inv[p].pc = "update"
        /\ inv[p].nRate = 2
        /\ inv[p].nFail = 2
        /\ inv[p].requests = 3
        /\ inv[p].waits = <<1000, 2000>>

\* C8: the summarize call on an empty text returns null having sent no
\* request and waited no backoff.
C8_EmptyInput ==
    \A p \in Procs :
        (inv[p].called /\ CurrentTweet(p).text = "") =>
            /\ inv[p].pc = "settle"
            /\ inv[p].result = JsonNull
            /\ inv[p].requests = 0
            /\ inv[p].waits = <<>>

\* A tweet with an empty text went through the call.
C8_Witness ==
    \E p \in Procs :
        /\ inv[p].called
        /\ CurrentTweet(p).text = ""
        /\ inv[p].pc = "settle"

HasKey(v, key) == \E pr \in v.props : pr[1] = key

\* C9: a value other than null that summarize returns has a title and a
\* summary.
C9_ResultShape ==
    \A p \in Procs :
        (Returned(p) /\ inv[p].result # JsonNull) =>
            HasKey(inv[p].result, "title") /\ HasKey(inv[p].result, "summary")

\* out is tweets without the records whose url is in known, in the order
\* of tweets.
IsFilterResult(out, tweets, known) ==
    LET absent == {j \in 1..Len(tweets) : tweets[j].url \notin known}
    IN  /\ Len(out) = Cardinality(absent)
        /\ \E f \in [1..Len(out) -> absent] :
              /\ \A m, n \in 1..Len(out) : m < n => f[m] < f[n]
              /\ \A m \in 1..Len(out) : out[m] = tweets[f[m]]

\* C10: the step that takes the answer of the lookup leaves the store as
\* it is; when it goes on to summarize, the new tweets are the scraped
\* tweets whose url the lookup did not return, in the scraped order; and it
\* goes on to the next user only when the lookup returned every url.
C10_FilterNew ==
    [][\A p \in Procs :
          (inv[p].pc = "find" /\ inv'[p].pc # "find") =>
              LET known == {a.url : a \in store} \cap
                               ScrapedUrls(inv[p].recentTweets)
              IN  /\ store' = store
                  /\ inv'[p].pc \in {"fetch", "settle"} =>
                         /\ inv'[p].existingUrls = known
                         /\ inv'[p].newTweets # <<>>
                         /\ IsFilterResult(inv'[p].newTweets,
                                           inv[p].recentTweets, known)
                  /\ inv'[p].pc = "scrape" =>
                         ScrapedUrls(inv[p].recentTweets) \subseteq known]_vars

\* The filter dropped a known record and kept a new one.
C10_Witness ==
    \E p \in Procs :
        /\ inv[p].pc \in {"fetch", "backoff", "update", "settle"}
        /\ Len(inv[p].newTweets) >= 1
        /\ Len(inv[p].newTweets) < Len(inv[p].recentTweets)
        /\ inv[p].existingUrls # {}

\* C11: the scroll and measure loop of the extractor stops after at most 10
\* iterations, and before the 10th only when a measurement equals the one
\* before it (nothing, before the first) or reaches the target count.
C11_ScrollStabilization ==
    \A p \in Procs :
        LET m == inv[p].measurements
            n == Len(m)
            before == IF n > 1 THEN m[n - 1] ELSE 0
        IN  inv[p].pc = "close" /\ n > 0 =>
                /\ n <= 10
                /\ n < 10 => m[n] >= SliceLimit \/ m[n] = before

\* The dates of a sequence of tweets never rise.
Descending(tweets) ==
    \A j \in 1..(Len(tweets) - 1) : tweets[j].date >= tweets[j + 1].date

\* C12: the records the extractor returns are sorted by date, latest first,
\* whatever the order the page renders them in, and the new ones are
\* summarized and stored in that order.
C12_ProcessingOrder ==
    \A p \in Procs :
        /\ Descending(inv[p].recentTweets)
        /\ Descending(inv[p].newTweets)

\* C13: no failure local to one user or to one tweet ends the run: a run
\* returns only after its last user, and after the last new tweet of that
\* user.
C13_FailureIsolation ==
    [][\A p \in Procs :
          Running(p) /\ ~Running(p)' =>
              /\ inv[p].u = NumUsers
              /\ inv[p].pc \in {"update", "settle"} =>
                     inv[p].k = Len(inv[p].newTweets)]_vars

\* The invocation is inside scrapeUserProfile with its browser launched.
InExtraction(p) == inv[p].pc \in {"context", "page", "close"}

\* C14: every browser launched is closed before scrapeUserProfile returns,
\* on every path: a browser is open only while a scrape holds it.
C14_SessionRelease ==
    browsers = Cardinality({p \in Procs : InExtraction(p)})

\* C15: the users are visited in the order of TARGET_USERNAMES, the scrape
\* of a user begins only after every new tweet of the user before was
\* summarized and stored or skipped, and never two scrapes, two summarize
\* requests or two upserts are in flight together.
C15_StrictlySequential ==
    [][/\ Cardinality({p \in Procs : InExtraction(p)'}) <= 1
       /\ Cardinality({p \in Procs :
                          inv'[p].pc \in {"fetch", "backoff"}}) <= 1
       /\ Cardinality({p \in Procs : inv'[p].pc = "update"}) <= 1
       /\ \A p \in Procs :
             inv'[p].u # inv[p].u =>
                 \/ inv[p].pc = "idle" /\ inv'[p].u = 1
                 \/ inv'[p].pc = "idle" /\ inv'[p].u = 0
                 \/ /\ inv'[p].u = inv[p].u + 1
                    /\ inv'[p].pc = "scrape"
                    /\ inv[p].pc \in {"scrape", "close", "find", "settle"}
                    /\ inv[p].pc = "settle" =>
                           inv[p].k = Len(inv[p].newTweets)]_vars

\* The scrape of the second user is in flight after an Article of the first
\* was stored in this, the first run.
C15_Witness ==
    \E p \in Procs :
        /\ inv[p].u = 2
        /\ inv[p].pc = "page"
        /\ runs = 1
        /\ store # {}

\* C16: when summarizeWithGemini returns null for a new tweet, no Article
\* is written for it, the run goes on with the next tweet, and the settle
\* delay follows all the same: one delay per new tweet, stored or skipped.
C16_SkipOnFailure ==
    [][\A p \in Procs :
          /\ inv'[p].pc = "settle" /\ inv'[p].result = JsonNull
                 /\ inv'[p] # inv[p] => store' = store
          /\ inv'[p].pc = "update" => inv'[p].result # JsonNull
          /\ inv[p].pc = "settle" /\ inv[p].result = JsonNull
                 /\ inv'[p] # inv[p] =>
                 IF inv[p].k < Len(inv[p].newTweets)
                 THEN /\ inv'[p].k = inv[p].k + 1
                      /\ inv'[p].pc \in {"fetch", "settle"}
                 ELSE \/ inv'[p].pc = "scrape" /\ inv'[p].u = inv[p].u + 1
                      \/ inv'[p].pc = "idle" /\ inv[p].u = NumUsers
          /\ inv'[p].pc \in {"fetch", "backoff", "update"} =>
                 inv'[p].delays = inv'[p].k - 1
          /\ inv'[p].pc = "settle" => inv'[p].delays = inv'[p].k]_vars

\* The first new tweet of a user was stored, the second was given up after
\* maxRetries failed attempts, and the second settle delay is running.
C16_Witness ==
    \E p \in Procs :
        /\ inv[p].pc = "settle"
        /\ inv[p].result = JsonNull
        /\ inv[p].nFail = maxRetries
        /\ inv[p].k = 2
        /\ inv[p].delays = 2
        /\ runs = 1
        /\ store # {}

\* The entries of one media type in a media list.
CountOf(media, mediaType) ==
    Cardinality({j \in DOMAIN media : media[j].mediaType = mediaType})

\* C17: an article with a video player gets exactly one video entry and no
\* image entry; one without gets one image entry per attached image that
\* has a source; and a YouTube link in the text puts one embedded-video
\* entry in front of the list.
C17_MediaPrecedence ==
    phase = "done" /\ mapped # <<>> =>
        LET media == mapped[1].media
            attached == SelectSeq(article.photos, HasSrc)
        IN  /\ article.video =>
                   /\ CountOf(media, "video_post") = 1
                   /\ CountOf(media, "image") = 0
            /\ ~article.video =>
                   /\ CountOf(media, "video_post") = 0
                   /\ CountOf(media, "image") = Len(attached)
            /\ IF article.yt # ""
               THEN /\ CountOf(media, "youtube_video") = 1
                    /\ media[1].mediaType = "youtube_video"
               ELSE CountOf(media, "youtube_video") = 0

\* An article with a video player, two images and a YouTube link was mapped
\* to the embedded-video entry followed by the video entry.
C17_Witness ==
    /\ phase = "done"
    /\ article.video
    /\ Len(SelectSeq(article.photos, HasSrc)) = 2
    /\ article.yt # ""
    /\ Len(mapped) = 1
    /\ Len(mapped[1].media) = 2
    /\ mapped[1].media[2].mediaType = "video_post"

\* C18: the video entry of an article that holds a quoted tweet carries the
\* link of the quoted tweet; without a quoted tweet, the link of the article
\* itself.
C18_QuotedOverride ==
    phase = "done" /\ mapped # <<>> /\ article.video =>
        \E j \in DOMAIN mapped[1].media :
            /\ mapped[1].media[j].mediaType = "video_post"
            /\ mapped[1].media[j].url =
                   IF article.quoted # NoUrl THEN article.quoted
                                             ELSE article.href

\* C19: a tweet whose Article an earlier run stored is filtered out in
\* every later run: no summarize request and no upsert is made for it.
C19_NoResummarization ==
    \A p \in Procs :
        inv[p].pc \in {"fetch", "backoff", "update"} =>
            ~\E a \in storeAtStart : a.url = NormalizeUrl(CurrentTweet(p).url)

\* C20: a call turned away by the guard leaves the lock set, so a call that
\* comes while a run is in progress is turned away whatever calls were
\* turned away before it, and the lock falls only when a run ends.
C20_SkipKeepsGuard ==
    [][/\ \A p \in Procs :
             /\ inv[p].pc = "idle"
             /\ inv'[p] # inv[p]
             /\ \E q \in Procs : Running(q)
             => /\ inv'[p].skipped
                /\ inv'[p].pc = "idle"
                /\ isJobRunning'
       /\ isJobRunning /\ ~isJobRunning' =>
              \E p \in Procs : Running(p) /\ ~Running(p)']_vars

\* A call was turned away, and the run it met is at the settle delay of its
\* last user with the lock still set.
C20_Witness ==
    \E p, q \in Procs :
        /\ p # q
        /\ inv[q].skipped
        /\ inv[p].pc = "settle"
        /\ inv[p].u = NumUsers
        /\ isJobRunning

====
